---- MODULE Spec2Model ----
(***************************************************************************)
(* klippings.py: Kindle "My Clippings.txt" -> markdown report with the     *)
(* surrounding prose recovered from the book files of a library folder.    *)
(*                                                                         *)
(* A Python str is modelled as a sequence of one-character strings, so     *)
(* that split, strip, find, slicing and the regular expression of          *)
(* parse_meta are computed character by character, as the code does.       *)
(***************************************************************************)
EXTENDS Integers, Sequences, FiniteSets

VARIABLES pc, meta_line, content, books, note, book_path, result, notes, n, out, readable

vars == <<pc, meta_line, content, books, note, book_path, result, notes, n, out, readable>>

(***************************************************************************)
(* Values                                                                  *)
(***************************************************************************)

\* Python's None. A one-element sequence whose element is no character, so
\* that it can be compared with any str of the model.
None == <<"None">>

\* An exception that leaves the function (propagates to the caller).
Raised == <<"Raised">>

\* The character U+FEFF (byte-order mark); str.isspace() is False for it.
BOM == "U+FEFF"

\* The characters str.strip() removes (str.isspace()).
Whitespace == {" ", "\n", "\t", "\r"}

\* The characters \d matches.
Digits == {"0", "1", "2", "3", "4", "5", "6", "7", "8", "9"}

UpperCase == <<"A", "B", "C", "D", "E", "F", "G", "H", "I", "J", "K", "L", "M",
               "N", "O", "P", "Q", "R", "S", "T", "U", "V", "W", "X", "Y", "Z">>

LowerCase == <<"a", "b", "c", "d", "e", "f", "g", "h", "i", "j", "k", "l", "m",
               "n", "o", "p", "q", "r", "s", "t", "u", "v", "w", "x", "y", "z">>

Min(S) == CHOOSE x \in S : \A y \in S : x <= y

Max(S) == CHOOSE x \in S : \A y \in S : x >= y

(***************************************************************************)
(* str methods                                                             *)
(***************************************************************************)

\* text[start:end] with 0 <= start, 0 <= end (Python slice, 0-based, end exclusive).
Slice(text, start, end) == SubSeq(text, start + 1, IF end > Len(text) THEN Len(text) ELSE end)

\* text.find(sub): the lowest 0-based index where sub occurs, -1 if none.
Find(text, sub) ==
    LET Lowest(at) == IF at = {} THEN -1 ELSE Min(at)
    IN  Lowest({i \in 0..(Len(text) - Len(sub)) : SubSeq(text, i + 1, i + Len(sub)) = sub})

\* sub in text
Contains(text, sub) == Find(text, sub) # -1

\* text.strip()
Strip(text) ==
    LET Kept(keep) == IF keep = {} THEN <<>> ELSE SubSeq(text, Min(keep), Max(keep))
    IN  Kept({i \in 1..Len(text) : text[i] \notin Whitespace})

\* text.lower()
Lower(text) ==
    [i \in 1..Len(text) |->
        IF \E k \in 1..26 : UpperCase[k] = text[i]
        THEN LowerCase[CHOOSE k \in 1..26 : UpperCase[k] = text[i]]
        ELSE text[i]]

\* text.split(sep): the pieces between the non-overlapping occurrences of
\* sep, found left to right; always at least one piece.
RECURSIVE Split(_, _)
Split(text, sep) ==
    LET Cut(i) ==
            IF i = -1 THEN <<text>>
            ELSE <<SubSeq(text, 1, i)>> \o Split(SubSeq(text, i + Len(sep) + 1, Len(text)), sep)
    IN  Cut(Find(text, sep))

\* sep.join(parts)
RECURSIVE Join(_, _)
Join(parts, sep) ==
    IF parts = <<>> THEN <<>>
    ELSE IF Len(parts) = 1 THEN parts[1]
    ELSE parts[1] \o sep \o Join(Tail(parts), sep)

\* The concatenation of a sequence of sequences.
RECURSIVE Flatten(_)
Flatten(ss) == IF ss = <<>> THEN <<>> ELSE ss[1] \o Flatten(Tail(ss))

(***************************************************************************)
(* parse_meta: the regular expression, matched with re.match's             *)
(* backtracking order (alternatives left to right, quantifiers greedy).    *)
(***************************************************************************)

LitYour == <<"-", " ", "Y", "o", "u", "r", " ">>

LitBookmark == <<"B", "o", "o", "k", "m", "a", "r", "k">>

LitHighlight == <<"H", "i", "g", "h", "l", "i", "g", "h", "t">>

LitOn == <<" ", "o", "n", " ">>

LitPage == <<"p", "a", "g", "e", " ">>

LitLocation == <<"L", "o", "c", "a", "t", "i", "o", "n", " ">>

LitBarLocation == <<" ", "|", " ", "L", "o", "c", "a", "t", "i", "o", "n", " ">>

LitBarAdded == <<" ", "|", " ", "A", "d", "d", "e", "d">>

\* The literal lit occurs in s at the 1-based position pos.
At(s, pos, lit) ==
    /\ pos + Len(lit) - 1 <= Len(s)
    /\ SubSeq(s, pos, pos + Len(lit) - 1) = lit

\* \d+ at pos: the positions after the match, longest match first.
DigitsEnds(s, pos) ==
    LET Ends(run) == [k \in 1..run |-> pos + run - k + 1]
        Run(stop) == (IF stop = {} THEN Len(s) + 1 ELSE Min(stop)) - pos
    IN  Ends(Run({i \in pos..Len(s) : s[i] \notin Digits}))

\* \d+(-\d+)? at pos: the positions after the match in the order the
\* matcher tries them: for each \d+ (longest first), the optional group
\* taken (longest first), then skipped.
NumberEnds(s, pos) ==
    LET Ends(first) ==
            Flatten([k \in 1..Len(first) |->
                (IF first[k] <= Len(s) /\ s[first[k]] = "-"
                 THEN DigitsEnds(s, first[k] + 1) ELSE <<>>) \o <<first[k]>>])
    IN  Ends(DigitsEnds(s, pos))

\* groupdict() of a failed match: dict.get gives None for every name.
NoGroups == [type |-> None, pg_only |-> None, loc_only |-> None, pg |-> None, loc |-> None]

\* page (?P<pg_only>\d+(-\d+)?)
AltPageOnly(s, pos) ==
    LET from == pos + Len(LitPage)
        Groups(ends) ==
            [k \in 1..Len(ends) |->
                [end |-> ends[k], pg_only |-> SubSeq(s, from, ends[k] - 1),
                 loc_only |-> None, pg |-> None, loc |-> None]]
    IN  IF ~At(s, pos, LitPage) THEN <<>> ELSE Groups(NumberEnds(s, from))

\* Location (?P<loc_only>\d+(-\d+)?)
AltLocationOnly(s, pos) ==
    LET from == pos + Len(LitLocation)
        Groups(ends) ==
            [k \in 1..Len(ends) |->
                [end |-> ends[k], pg_only |-> None,
                 loc_only |-> SubSeq(s, from, ends[k] - 1), pg |-> None, loc |-> None]]
    IN  IF ~At(s, pos, LitLocation) THEN <<>> ELSE Groups(NumberEnds(s, from))

\* page (?P<pg>\d+) \| Location (?P<loc>\d+(-\d+)?)
AltPageLocation(s, pos) ==
    LET from == pos + Len(LitPage)
        Groups(pend, lends) ==
            [k \in 1..Len(lends) |->
                [end |-> lends[k], pg_only |-> None, loc_only |-> None,
                 pg |-> SubSeq(s, from, pend - 1),
                 loc |-> SubSeq(s, pend + Len(LitBarLocation), lends[k] - 1)]]
        Pages(pends) ==
            Flatten([j \in 1..Len(pends) |->
                IF ~At(s, pends[j], LitBarLocation) THEN <<>>
                ELSE Groups(pends[j], NumberEnds(s, pends[j] + Len(LitBarLocation)))])
    IN  IF ~At(s, pos, LitPage) THEN <<>> ELSE Pages(DigitsEnds(s, from))

\* The group (page ..|Location ..|page .. \| Location ..): every way it can
\* match at pos, in the order the matcher tries them.
Alternatives(s, pos) ==
    AltPageOnly(s, pos) \o AltLocationOnly(s, pos) \o AltPageLocation(s, pos)

\* The pattern cut after the alternatives: nothing is required to follow.
MatchTailDropped(s, pos) == TRUE

\* " \| Added.*" at pos: the literal, then .* takes whatever follows.
MatchTail(s, pos) == At(s, pos, LitBarAdded)

\* (?P<type>Bookmark|Highlight) at pos: the word matched, or None.
MatchType(s, pos) ==
    IF At(s, pos, LitBookmark) THEN LitBookmark
    ELSE IF At(s, pos, LitHighlight) THEN LitHighlight
    ELSE None

\* re.match(pattern, meta_line).groupdict(), or NoGroups when there is no match.
MatchGroups(s) ==
    LET tpos == 1 + Len(LitYour)
        First(type, alts, ok) ==
            IF ok = {} THEN NoGroups
            ELSE [type |-> type, pg_only |-> alts[Min(ok)].pg_only,
                  loc_only |-> alts[Min(ok)].loc_only,
                  pg |-> alts[Min(ok)].pg, loc |-> alts[Min(ok)].loc]
        Try(type, alts) == First(type, alts, {k \in 1..Len(alts) : MatchTail(s, alts[k].end)})
        AfterType(type) ==
            IF type = None \/ ~At(s, tpos + Len(type), LitOn) THEN NoGroups
            ELSE Try(type, Alternatives(s, tpos + Len(type) + Len(LitOn)))
    IN  IF ~At(s, 1, LitYour) THEN NoGroups ELSE AfterType(MatchType(s, tpos))

\* Python's "a or b" on values that are None or a str.
Or(a, b) == IF a # None /\ a # <<>> THEN a ELSE b

parse_meta(line) ==
    LET Fields(groups) ==
            [type     |-> groups.type,
             page     |-> Or(groups.pg_only, groups.pg),
             location |-> Or(groups.loc_only, groups.loc)]
    IN  Fields(MatchGroups(line))

(***************************************************************************)
(* Metadata lines the extractor is applied to                              *)
(***************************************************************************)

\* Longest chain of " | "-separated clauses of a generated metadata line.
MaxClauses == 2

Heads == {LitYour, <<"Y", "o", "u", "r", " ">>}

Kinds == {LitBookmark, LitHighlight, <<"N", "o", "t", "e">>}

Numbers == {<<"7">>, <<"3", "4">>, <<"3", "4", "-", "3", "5">>}

Clauses ==
    {LitPage \o x : x \in Numbers} \cup {LitLocation \o x : x \in Numbers}
        \cup {LitPage, <<"l", "o", "c", " ", "1">>}

Bar == <<" ", "|", " ">>

AddedOn == LitBarAdded \o <<" ", "o", "n", " ", "M", "a", "y", " ", "2">>

\* What follows the clauses: the timestamp clause, the timestamp clause
\* followed by more text, a lower-case variant, nothing.
Tails ==
    {AddedOn, AddedOn \o Bar \o LitLocation \o <<"9">>,
     <<" ", "|", " ", "a", "d", "d", "e", "d">>, <<>>}

ClauseChains == UNION {[1..k -> Clauses] : k \in 1..MaxClauses}

MetaLines ==
    {h \o kd \o LitOn \o Join(cs, Bar) \o t :
        h \in Heads, kd \in Kinds, cs \in ClauseChains, t \in Tails}

(***************************************************************************)
(* Specification of one call of parse_meta                                 *)
(***************************************************************************)

Idle == <<>>

InitMeta ==
    /\ pc = "call"
    /\ meta_line \in MetaLines
    /\ result = None
    /\ content = Idle /\ books = Idle /\ note = Idle /\ book_path = Idle
    /\ notes = Idle /\ n = 0 /\ out = Idle /\ readable = TRUE

CallParseMeta ==
    /\ pc = "call"
    /\ result' = parse_meta(meta_line)
    /\ pc' = "done"
    /\ UNCHANGED <<meta_line, content, books, note, book_path, notes, n, out, readable>>

NextMeta == CallParseMeta

SpecMeta == InitMeta /\ [][NextMeta]_vars

(***************************************************************************)
(* Properties of parse_meta                                                *)
(***************************************************************************)

AllAbsent == [type |-> None, page |-> None, location |-> None]

\* The two annotation kinds and the values P, L of the grammar.
GrammarKinds == {LitBookmark, LitHighlight}

\* The timestamp clause that ends a line of the grammar: " | Added on ...".
TimestampTails == {t \in Tails : At(t, 1, AddedOn)}

ShapePageLocation(K, P, L, T) == LitYour \o K \o LitOn \o LitPage \o P \o Bar \o LitLocation \o L \o T

ShapePage(K, P, T) == LitYour \o K \o LitOn \o LitPage \o P \o T

ShapeLocation(K, L, T) == LitYour \o K \o LitOn \o LitLocation \o L \o T

ShapeLines ==
    {ShapePageLocation(K, P, L, T) : K \in GrammarKinds, P \in Numbers, L \in Numbers, T \in TimestampTails}
        \cup {ShapePage(K, P, T) : K \in GrammarKinds, P \in Numbers, T \in TimestampTails}
        \cup {ShapeLocation(K, L, T) : K \in GrammarKinds, L \in Numbers, T \in TimestampTails}

\* C3: for K in {Bookmark, Highlight} and P, L each a number or a hyphenated
\* range, parse_meta returns {K, P, L} for "- Your K on page P | Location L |
\* Added on ...", {K, P, absent} for "- Your K on page P | Added on ...",
\* {K, absent, L} for "- Your K on Location L | Added on ...", and all three
\* fields absent for every line of none of these shapes.
C3_ThreeShapes ==
    pc = "done" /\ meta_line # Idle =>
        /\ \A K \in GrammarKinds, T \in TimestampTails, P \in Numbers :
              /\ meta_line = ShapePage(K, P, T)
                    => result = [type |-> K, page |-> P, location |-> None]
              /\ meta_line = ShapeLocation(K, P, T)
                    => result = [type |-> K, page |-> None, location |-> P]
              /\ \A L \in Numbers :
                    meta_line = ShapePageLocation(K, P, L, T)
                        => result = [type |-> K, page |-> P, location |-> L]
        /\ meta_line \notin ShapeLines => result = AllAbsent

\* The part of a metadata line before its timestamp clause.
BeforeTimestamp(line) ==
    LET t == Find(line, LitBarAdded) IN IF t = -1 THEN line ELSE Slice(line, 0, t)

\* The line carries a page clause and a Location clause before the timestamp.
HasBothClauses(line) ==
    /\ \E d \in Digits : Contains(BeforeTimestamp(line), LitPage \o <<d>>)
    /\ \E d \in Digits : Contains(BeforeTimestamp(line), LitLocation \o <<d>>)

\* C10: parse_meta never returns a partial match: the result is all three
\* fields absent, or kind present with at least one of page and location; and
\* a line with a page clause and a Location clause before the timestamp never
\* yields exactly one of page and location.
C10_NoPartialMatch ==
    pc = "done" /\ meta_line # Idle =>
        /\ \/ result = AllAbsent
           \/ result.type # None /\ (result.page # None \/ result.location # None)
        /\ HasBothClauses(meta_line) => ((result.page = None) <=> (result.location = None))

\* A line with both clauses was parsed and both fields came back.
C10_Witness ==
    /\ pc = "done" /\ meta_line # Idle
    /\ HasBothClauses(meta_line)
    /\ result.type # None /\ result.page # None /\ result.location # None


(***************************************************************************)
(* parse_clippings                                                         *)
(***************************************************************************)

\* "==========", the argument of content.split
Separator == <<"=", "=", "=", "=", "=", "=", "=", "=", "=", "=">>

NL == <<"\n">>

\* [line.strip() for line in entry.strip().split("\n") if line.strip()]
EntryLines(entry) ==
    LET NonBlank(line) == Strip(line) # <<>>
        Stripped(kept) == [k \in 1..Len(kept) |-> Strip(kept[k])]
    IN  Stripped(SelectSeq(Split(Strip(entry), NL), NonBlank))

\* book, meta, *text = lines; the dict appended for the entry.
EntryNote(lines) ==
    LET Note(m) ==
            [book |-> lines[1], text |-> Join(SubSeq(lines, 3, Len(lines)), NL),
             type |-> m.type, page |-> m.page, location |-> m.location]
    IN  Note(parse_meta(lines[2]))

\* if len(lines) >= 3: the note of the entry, as a list of one or none.
NoteIfComplete(lines) == IF Len(lines) >= 3 THEN <<EntryNote(lines)>> ELSE <<>>

\* The notes of the entries that have at least 3 lines, in entry order.
EntryNotes(entries) ==
    Flatten([k \in 1..Len(entries) |-> NoteIfComplete(EntryLines(entries[k]))])

\* Every note opens a list of its own: the lookup of the book is lost.
GroupAddUngrouped(notes_by_book, nt) ==
    Append(notes_by_book, [book |-> nt.book, list |-> <<nt>>])

\* notes_by_book is a dict, which keeps its keys in insertion order: a
\* sequence of (book, list) pairs. A new book is added at the end, a known
\* book's list is appended to.
GroupAdd(notes_by_book, nt) ==
    IF \E k \in 1..Len(notes_by_book) : notes_by_book[k].book = nt.book
    THEN [k \in 1..Len(notes_by_book) |->
            IF notes_by_book[k].book = nt.book
            THEN [notes_by_book[k] EXCEPT !.list = Append(@, nt)]
            ELSE notes_by_book[k]]
    ELSE Append(notes_by_book, [book |-> nt.book, list |-> <<nt>>])

\* The loop over the entries, filling notes_by_book.
RECURSIVE GroupAll(_, _)
GroupAll(notes_by_book, nts) ==
    IF nts = <<>> THEN notes_by_book
    ELSE GroupAll(GroupAdd(notes_by_book, nts[1]), Tail(nts))

\* for single_book_notes in notes_by_book.values(): for note in ...: append
GroupedNotes(nts) ==
    LET Values(notes_by_book) == Flatten([k \in 1..Len(notes_by_book) |-> notes_by_book[k].list])
    IN  Values(GroupAll(<<>>, nts))

parse_clippings(text) == GroupedNotes(EntryNotes(Split(text, Separator)))

(***************************************************************************)
(* Export texts the parser is applied to                                   *)
(***************************************************************************)

\* Most records of a generated export text.
MaxRecords == 3

MetaLocation == LitYour \o LitHighlight \o LitOn \o LitLocation \o <<"7">> \o AddedOn

MetaPageLocation ==
    LitYour \o LitBookmark \o LitOn \o LitPage \o <<"3">> \o Bar \o LitLocation \o <<"7">> \o AddedOn

MetaJunk == <<"j", "u", "n", "k">>

\* A body line with the ten '=' inside it.
EmbeddedLine == <<"a">> \o Separator \o <<"b">>

\* A line of eleven '='.
ElevenLine == Separator \o <<"=">>

\* A record as the device writes it: title, metadata line, blank line, body
\* lines, then the closing line.
Render(r) ==
    r.title \o NL \o r.meta \o NL \o NL
        \o Flatten([k \in 1..Len(r.body) |-> r.body[k] \o NL]) \o r.close \o NL

RecordMenu ==
    {[title |-> <<"A">>, meta |-> MetaLocation, body |-> <<<<"t">>>>, close |-> Separator],
     [title |-> <<"B", " ", "(", "x", ")">>, meta |-> MetaPageLocation,
      body |-> << <<"u">>, <<" ", "v">> >>, close |-> Separator],
     [title |-> <<"A">>, meta |-> MetaJunk, body |-> <<<<"w">>>>, close |-> Separator],
     [title |-> <<"C">>, meta |-> MetaLocation, body |-> <<>>, close |-> Separator],
     [title |-> <<"A">>, meta |-> MetaLocation,
      body |-> << EmbeddedLine, <<"c">>, <<"d">> >>, close |-> Separator],
     [title |-> <<"C">>, meta |-> MetaLocation, body |-> <<<<"t">>>>, close |-> ElevenLine]}

\* What precedes the first record: nothing, a byte-order mark, white space.
Leads == {<<>>, <<BOM>>, <<" ", "\n">>}

RecordLists == UNION {[1..k -> RecordMenu] : k \in 1..MaxRecords}

Exports ==
    {lead \o Flatten([k \in 1..Len(rs) |-> Render(rs[k])]) : lead \in Leads, rs \in RecordLists}

(***************************************************************************)
(* Specification of one call of parse_clippings                            *)
(***************************************************************************)

InitParse ==
    /\ pc = "call"
    /\ content \in Exports
    /\ result = None
    /\ meta_line = Idle /\ books = Idle /\ note = Idle /\ book_path = Idle
    /\ notes = Idle /\ n = 0 /\ out = Idle /\ readable = TRUE

CallParseClippings ==
    /\ pc = "call"
    /\ result' = parse_clippings(content)
    /\ pc' = "done"
    /\ UNCHANGED <<meta_line, content, books, note, book_path, notes, n, out, readable>>

NextParse == CallParseClippings

SpecParse == InitParse /\ [][NextParse]_vars


(***************************************************************************)
(* Properties of parse_clippings                                           *)
(***************************************************************************)

\* The record blocks of an export text as the format defines them: the runs
\* of lines between the lines that consist of exactly ten '='.
RECURSIVE BlocksFrom(_, _)
BlocksFrom(lines, block) ==
    IF lines = <<>> THEN <<block>>
    ELSE IF lines[1] = Separator THEN <<block>> \o BlocksFrom(Tail(lines), <<>>)
    ELSE BlocksFrom(Tail(lines), Append(block, lines[1]))

RecordBlocks(text) == BlocksFrom(Split(text, NL), <<>>)

NonBlankLines(block) == Cardinality({k \in 1..Len(block) : Strip(block[k]) # <<>>})

\* C1: parse_clippings returns exactly one Annotation per record block that
\* has at least 3 non-blank lines and none for a block with fewer, whether or
\* not the metadata line parses; every Annotation has book and text
\* populated, and kind, page and location absent when the metadata is
\* unparseable.
C1_OnePerBlock ==
    pc = "done" /\ content # Idle =>
        LET blocks == RecordBlocks(content)
        IN  /\ Len(result) = Cardinality({k \in 1..Len(blocks) : NonBlankLines(blocks[k]) >= 3})
            /\ \A k \in 1..Len(result) :
                  /\ result[k].book # <<>> /\ result[k].text # <<>>
                  /\ result[k].type = None
                        => result[k].page = None /\ result[k].location = None

\* The Annotations in the order of the source export.
SourceNotes(text) == EntryNotes(Split(text, Separator))

FirstIndex(nts, book) == Min({k \in 1..Len(nts) : nts[k].book = book})

OfBook(nts, book) == LET Same(nt) == nt.book = book IN SelectSeq(nts, Same)

\* C2: in the returned sequence the Annotations of one raw book title are
\* contiguous, keep their relative order from the source, and the books
\* follow each other in the order of their first record in the source, also
\* when the records of two books are interleaved.
C2_GroupedInSourceOrder ==
    pc = "done" /\ content # Idle =>
        LET src   == SourceNotes(content)
            Books == {src[k].book : k \in 1..Len(src)}
        IN  /\ \A i, j, k \in 1..Len(result) :
                  i < j /\ j < k /\ result[i].book = result[k].book
                      => result[j].book = result[i].book
            /\ {result[k].book : k \in 1..Len(result)} = Books
            /\ \A b \in Books : OfBook(result, b) = OfBook(src, b)
            /\ \A b1, b2 \in Books :
                  FirstIndex(src, b1) < FirstIndex(src, b2)
                      => \A i, j \in 1..Len(result) :
                            result[i].book = b1 /\ result[j].book = b2 => i < j

\* The source interleaves two books (A, B, A) and the parser regrouped them.
C2_Witness ==
    /\ pc = "done" /\ content # Idle
    /\ LET src == SourceNotes(content)
       IN  /\ \E i, j, k \in 1..Len(src) :
                 i < j /\ j < k /\ src[i].book = src[k].book /\ src[j].book # src[i].book
           /\ result # src

\* The text without its leading byte-order mark and white space.
StripLead(text) ==
    LET keep == {i \in 1..Len(text) : text[i] \notin Whitespace \cup {BOM}}
    IN  IF keep = {} THEN <<>> ELSE SubSeq(text, Min(keep), Len(text))

\* C8: a leading byte-order mark and leading white space do not change the
\* parse result: the text parses to the Annotations of the text without them.
C8_LeadTolerated ==
    pc = "done" /\ content # Idle => result = parse_clippings(StripLead(content))

\* C9: records are separated only at a line of exactly ten '=': the result
\* is the Annotations of the record blocks, so a line that holds a run of
\* ten or more '=' besides other characters stays in its record's text.
C9_SeparatorLineOnly ==
    pc = "done" /\ content # Idle =>
        LET blocks == RecordBlocks(content)
        IN  result = GroupedNotes(EntryNotes([k \in 1..Len(blocks) |-> Join(blocks[k], NL)]))


(***************************************************************************)
(* Book files and the two searches                                         *)
(*                                                                         *)
(* A book file is [name, load, items]: load is what opening it with the    *)
(* library does ("ok", "KeyError" or "OtherError": what ebooklib and pypdf *)
(* raise is theirs to choose), items are its parts in document order, each *)
(* [type, text]: for an epub the item's type and the text of its body, for *)
(* a pdf the text of a page.                                               *)
(***************************************************************************)

\* context=200, the default of search_epub and search_pdf
Context == 200

\* ebooklib.ITEM_DOCUMENT, the 9 of item.get_type() == 9
ItemDocument == 9

\* The window cut with end = idx + len(note): the context after the
\* occurrence is forgotten.
WindowNoRightContext(text, nt, context) ==
    LET Cut(idx) == Slice(text, IF idx - context > 0 THEN idx - context ELSE 0, idx + Len(nt))
    IN  Cut(Find(text, nt))

\* idx = text.find(note); start = max(0, idx - context);
\* end = min(len(text), idx + len(note) + context); text[start:end]
Window(text, nt, context) ==
    LET Cut(idx) ==
            Slice(text,
                  IF idx - context > 0 THEN idx - context ELSE 0,
                  IF Len(text) < idx + Len(nt) + context THEN Len(text)
                  ELSE idx + Len(nt) + context)
    IN  Cut(Find(text, nt))

\* The window of the first of the texts that holds the note, None if none does.
FirstWindow(texts, nt, context) ==
    LET First(hits) == IF hits = {} THEN None ELSE Window(texts[Min(hits)], nt, context)
    IN  First({k \in 1..Len(texts) : Find(texts[k], nt) # -1})

search_epub(path, nt, context) ==
    LET IsDocument(item) == item.type = ItemDocument
        Texts(docs) == [k \in 1..Len(docs) |-> docs[k].text]
    IN  IF path.load = "KeyError" THEN None
        ELSE IF path.load # "ok" THEN Raised
        ELSE FirstWindow(Texts(SelectSeq(path.items, IsDocument)), nt, context)

search_pdf(path, nt, context) ==
    LET HasText(item) == item.text # <<>> /\ item.text # None
        Texts(pages) == [k \in 1..Len(pages) |-> pages[k].text]
    IN  IF path.load # "ok" THEN Raised
        ELSE FirstWindow(Texts(SelectSeq(path.items, HasText)), nt, context)

(***************************************************************************)
(* Documents the searches are applied to                                   *)
(***************************************************************************)

\* Most items of a generated document.
MaxItems == 2

Pad(k, c) == [i \in 1..k |-> c]

\* Characters before and after the occurrence: none, just under, exactly
\* and just over the context.
LeftPads == {0, Context - 1, Context, Context + 1}

RightPads == {Context - 1, Context, Context + 1}

NoteT == <<"t">>

NoteUV == <<"u", "\n", "v">>

SearchNotes == {NoteT, NoteUV}

Both == NoteT \o <<" ">> \o NoteUV

\* Texts that hold both notes once, texts that hold them twice, texts that
\* hold neither, the empty text.
ItemTexts ==
    {Pad(l, "x") \o Both \o Pad(r, "y") : l \in LeftPads, r \in RightPads}
        \cup {Pad(3, "x") \o Both \o Pad(Context + 5, "y") \o Both \o Pad(2, "x")}
        \cup {<<"z", "z">>, <<>>}

\* The last item is no document: its type is 1 (ebooklib.ITEM_IMAGE).
ItemMenu ==
    {[type |-> ItemDocument, text |-> tx] : tx \in ItemTexts}
        \cup {[type |-> ItemDocument - 8, text |-> Pad(2, "x") \o Both]}

ItemLists == UNION {[1..k -> ItemMenu] : k \in 1..MaxItems}

SearchFiles ==
    {[name |-> <<"a">>, load |-> "ok", items |-> its] : its \in ItemLists}
        \cup {[name |-> <<"a">>, load |-> ld, items |-> <<>>] : ld \in {"KeyError", "OtherError"}}

(***************************************************************************)
(* Specification of one call of search_epub or search_pdf                  *)
(***************************************************************************)

InitSearch ==
    /\ pc = "call"
    /\ book_path \in SearchFiles
    /\ note \in {[book |-> <<"A">>, text |-> tx] : tx \in SearchNotes}
    /\ result = None
    /\ meta_line = Idle /\ content = Idle /\ books = Idle
    /\ notes = Idle /\ n = 0 /\ out = Idle /\ readable = TRUE

CallSearchEpub ==
    /\ pc = "call"
    /\ result' = search_epub(book_path, note.text, Context)
    /\ pc' = "epub"
    /\ UNCHANGED <<meta_line, content, books, note, book_path, notes, n, out, readable>>

CallSearchPdf ==
    /\ pc = "call"
    /\ result' = search_pdf(book_path, note.text, Context)
    /\ pc' = "pdf"
    /\ UNCHANGED <<meta_line, content, books, note, book_path, notes, n, out, readable>>

NextSearch == CallSearchEpub \/ CallSearchPdf

SpecSearch == InitSearch /\ [][NextSearch]_vars


(***************************************************************************)
(* Properties of search_epub and search_pdf                                *)
(***************************************************************************)

\* The text blocks of a document in document order: the bodies of an epub's
\* document items, the pages of a pdf.
TextBlocks(path, format) ==
    LET IsDocument(item) == format = "pdf" \/ item.type = ItemDocument
        its == SelectSeq(path.items, IsDocument)
    IN  [k \in 1..Len(its) |-> its[k].text]

\* C4: when the text occurs in the document, the searches return, for the
\* first block that contains it and its first index i in that block of
\* length n, exactly the substring from max(0, i-200) to
\* min(n, i+len(text)+200): it contains the text, is at most len(text)+400
\* long, exactly that long when 200 characters lie on each side and shorter
\* when fewer lie on either side; when no block contains the text the result
\* is absent.
C4_ContextWindow ==
    pc \in {"epub", "pdf"} /\ book_path.load = "ok" =>
        LET blocks == TextBlocks(book_path, pc)
            hits   == {k \in 1..Len(blocks) : Contains(blocks[k], note.text)}
        IN  IF hits = {} THEN result = None
            ELSE LET tx    == blocks[Min(hits)]
                     i     == Find(tx, note.text)
                     len   == Len(note.text)
                     lo    == IF i - 200 > 0 THEN i - 200 ELSE 0
                     hi    == IF Len(tx) < i + len + 200 THEN Len(tx) ELSE i + len + 200
                     after == Len(tx) - (i + len)
                 IN  /\ result = SubSeq(tx, lo + 1, hi)
                     /\ Contains(result, note.text)
                     /\ Len(result) <= len + 400
                     /\ i >= 200 /\ after >= 200 => Len(result) = len + 400
                     /\ i < 200 \/ after < 200 => Len(result) < len + 400

\* The text was found in the second block, not the first, with more than
\* 200 characters on each side, and the window is a proper part of the block.
C4_Witness ==
    /\ pc \in {"epub", "pdf"} /\ book_path.load = "ok"
    /\ LET blocks == TextBlocks(book_path, pc)
       IN  /\ Len(blocks) = 2
           /\ ~Contains(blocks[1], note.text)
           /\ Contains(blocks[2], note.text)
           /\ result # None
           /\ Len(result) = Len(note.text) + 400
           /\ Len(result) < Len(blocks[2])


(***************************************************************************)
(* find_context                                                            *)
(*                                                                         *)
(* books is the library folder: its files in the order a recursive         *)
(* traversal yields them.                                                  *)
(***************************************************************************)

ExtEpub == <<".", "e", "p", "u", "b">>

ExtPdf == <<".", "p", "d", "f">>

\* name.rfind("."): the highest 0-based index of a dot, -1 if none.
RFindDot(name) ==
    LET Highest(at) == IF at = {} THEN -1 ELSE Max(at)
    IN  Highest({i \in 0..(Len(name) - 1) : name[i + 1] = "."})

\* PurePath.suffix: from the last dot, unless the name starts or ends with it.
Suffix(name) ==
    LET From(i) == IF 0 < i /\ i < Len(name) - 1 THEN Slice(name, i, Len(name)) ELSE <<>>
    IN  From(RFindDot(name))

\* PurePath.stem: the name without its suffix.
Stem(name) ==
    LET UpTo(i) == IF 0 < i /\ i < Len(name) - 1 THEN Slice(name, 0, i) ELSE name
    IN  UpTo(RFindDot(name))

\* Path(books_folder).rglob("*" + ext): the files whose name ends with ext,
\* in traversal order.
RGlob(folder, ext) ==
    LET Matches(path) ==
            /\ Len(path.name) >= Len(ext)
            /\ SubSeq(path.name, Len(path.name) - Len(ext) + 1, Len(path.name)) = ext
    IN  SelectSeq(folder, Matches)

\* note["book"].split("(")[0].strip().lower()
BookKey(nt) == Lower(Strip(Split(nt.book, <<"(">>)[1]))

\* The search of one path: the branch on path.suffix.
SearchPath(path, nt) ==
    IF Suffix(path.name) = ExtEpub THEN search_epub(path, nt.text, Context)
    ELSE search_pdf(path, nt.text, Context)

\* The paths of both traversals, epub first, that pass the test on the stem
\* and reach one of the two returns.
Candidates(nt, folder) ==
    LET Selected(path) ==
            /\ Contains(Lower(Stem(path.name)), BookKey(nt))
            /\ Suffix(path.name) \in {ExtEpub, ExtPdf}
    IN  SelectSeq(RGlob(folder, ExtEpub) \o RGlob(folder, ExtPdf), Selected)

\* The search goes on to the next matching file while a file gives None.
find_context_until_found(nt, folder) ==
    LET First(paths, found) == IF found = {} THEN None ELSE SearchPath(paths[Min(found)], nt)
        Try(paths) == First(paths, {k \in 1..Len(paths) : SearchPath(paths[k], nt) # None})
    IN  Try(Candidates(nt, folder))

find_context(nt, folder) ==
    LET First(paths) == IF paths = <<>> THEN None ELSE SearchPath(paths[1], nt)
    IN  First(Candidates(nt, folder))

(***************************************************************************)
(* Libraries and titles find_context is applied to                         *)
(***************************************************************************)

\* Most files of a generated library.
MaxFiles == 3

Doc(tx) == <<[type |-> ItemDocument, text |-> tx]>>

FileMenu ==
    {[name |-> <<"a">> \o ExtEpub, load |-> "ok", items |-> Doc(<<"e", "1", " ", "t">>)],
     [name |-> <<"x", "A">> \o ExtEpub, load |-> "ok", items |-> Doc(<<"z", "z">>)],
     [name |-> <<"a">> \o ExtPdf, load |-> "ok", items |-> Doc(<<"p", "1", " ", "t">>)],
     [name |-> <<"A", "2">> \o ExtPdf, load |-> "OtherError", items |-> <<>>],
     [name |-> <<"c">> \o ExtEpub, load |-> "KeyError", items |-> <<>>],
     [name |-> <<"a", "a">> \o ExtEpub, load |-> "OtherError", items |-> <<>>],
     [name |-> ExtEpub, load |-> "ok", items |-> Doc(<<"h", " ", "t">>)],
     [name |-> <<"a", ".", "t", "x", "t">>, load |-> "ok", items |-> Doc(<<"x", " ", "t">>)],
     [name |-> <<"c">> \o ExtPdf, load |-> "ok", items |-> Doc(<<"p", "2", " ", "t">>)]}

Libraries == UNION {[1..k -> FileMenu] : k \in 0..MaxFiles}

Titles == {<<"A">>, <<"C", " ", "(", "x", ")">>, <<"(", "x", ")">>, <<"E">>, <<"B">>}

(***************************************************************************)
(* Specification of one call of find_context                               *)
(***************************************************************************)

InitFind ==
    /\ pc = "call"
    /\ books \in Libraries
    /\ note \in {[book |-> b, text |-> NoteT] : b \in Titles}
    /\ result = None
    /\ meta_line = Idle /\ content = Idle /\ book_path = Idle
    /\ notes = Idle /\ n = 0 /\ out = Idle /\ readable = TRUE

CallFindContext ==
    /\ pc = "call"
    /\ result' = find_context(note, books)
    /\ pc' = "done"
    /\ UNCHANGED <<meta_line, content, books, note, book_path, notes, n, out, readable>>

NextFind == CallFindContext

SpecFind == InitFind /\ [][NextFind]_vars

\* The files of the library with the suffix ext whose lower-cased stem
\* contains the key, by their place in the traversal.
Matching(folder, key, ext) ==
    {k \in 1..Len(folder) :
        Suffix(folder[k].name) = ext /\ Contains(Lower(Stem(folder[k].name)), key)}

\* The part of the title before the first "(", trimmed and lower-cased.
NormalizedKey(title) ==
    LET paren == Find(title, <<"(">>)
    IN  Lower(Strip(IF paren = -1 THEN title ELSE Slice(title, 0, paren)))

\* C5: find_context searches exactly one file: the first epub file in
\* traversal order whose lower-cased stem contains the normalized key, or,
\* only when no epub file matches, the first such pdf file; the result is
\* that file's search result, and absent without an error when no file
\* matches.
C5_OneFileSearched ==
    pc = "done" /\ books # Idle /\ note # Idle =>
        LET key   == NormalizedKey(note.book)
            epubs == Matching(books, key, ExtEpub)
            pdfs  == Matching(books, key, ExtPdf)
        IN  IF epubs # {} THEN result = search_epub(books[Min(epubs)], note.text, Context)
            ELSE IF pdfs # {} THEN result = search_pdf(books[Min(pdfs)], note.text, Context)
            ELSE result = None

\* The first matching file does not hold the text, a later matching file
\* does, and the result is absent.
C5_Witness ==
    /\ pc = "done" /\ books # Idle /\ note # Idle
    /\ result = None
    /\ LET key  == NormalizedKey(note.book)
           hits == Matching(books, key, ExtEpub) \cup Matching(books, key, ExtPdf)
       IN  \E k \in hits :
              /\ books[k].load = "ok"
              /\ \E j \in 1..Len(books[k].items) : Contains(books[k].items[j].text, note.text)


(***************************************************************************)
(* main                                                                    *)
(*                                                                         *)
(* readable: open(clippings_path) succeeds. content is what f.read()       *)
(* returns: the file is decoded as "utf-8", which keeps a byte-order mark  *)
(* as the character U+FEFF. out is the sequence of strings given to        *)
(* out.write.                                                              *)
(***************************************************************************)

LitHeading == <<"#", "#", " ">>

LitNote == <<"*", "*", "N", "o", "t", "e", ":", "*", "*", " ">>

LitContext == <<"*", "*", "C", "o", "n", "t", "e", "x", "t", ":", "*", "*", " ">>

LitNotFound == <<"N", "o", "t", " ", "f", "o", "u", "n", "d">>

LitRule == <<"-", "-", "-">>

NLNL == <<"\n", "\n">>

\* "if context:" is false for None and for the empty string.
Truthy(value) == value # None /\ value # <<>>

\* The record is written only when the context was found.
WritesFoundOnly(nt, context) ==
    IF Truthy(context)
    THEN <<LitHeading \o nt.book \o NLNL, LitNote \o nt.text \o NLNL,
           LitContext \o context \o NLNL, LitRule \o NLNL>>
    ELSE <<>>

\* The four out.write calls of one note.
Writes(nt, context) ==
    <<LitHeading \o nt.book \o NLNL,
      LitNote \o nt.text \o NLNL,
      IF Truthy(context) THEN LitContext \o context \o NLNL
      ELSE LitContext \o LitNotFound \o NLNL,
      LitRule \o NLNL>>

(***************************************************************************)
(* Runs of main                                                            *)
(***************************************************************************)

\* Most records of the export of a run of main.
MaxRunRecords == 2

\* Most files of the library of a run of main.
MaxRunFiles == 2

RunRecordMenu ==
    {[title |-> <<"A">>, meta |-> MetaLocation, body |-> <<NoteT>>, close |-> Separator],
     [title |-> <<"C">>, meta |-> MetaJunk, body |-> <<NoteT>>, close |-> Separator],
     [title |-> <<"A">>, meta |-> MetaPageLocation, body |-> <<<<"w">>>>, close |-> Separator],
     [title |-> <<"B", " ", "(", "x", ")">>, meta |-> MetaLocation, body |-> <<NoteT>>,
      close |-> Separator]}

RunExports ==
    {Flatten([k \in 1..Len(rs) |-> Render(rs[k])]) :
        rs \in UNION {[1..k -> RunRecordMenu] : k \in 1..MaxRunRecords}}

RunFileMenu ==
    {f \in FileMenu :
        f.name \in {<<"a">> \o ExtEpub, <<"c">> \o ExtEpub, <<"a", "a">> \o ExtEpub,
                    <<"A", "2">> \o ExtPdf, <<"c">> \o ExtPdf}}

RunLibraries == UNION {[1..k -> RunFileMenu] : k \in 0..MaxRunFiles}

Init ==
    /\ pc = "start"
    /\ readable \in BOOLEAN
    /\ content \in (IF readable THEN RunExports ELSE {Idle})
    /\ books \in RunLibraries
    /\ notes = Idle /\ n = 0 /\ out = Idle
    /\ note = Idle /\ result = None
    /\ meta_line = Idle /\ book_path = Idle

\* open(clippings_path) raises: the run ends before anything is written.
OpenFails ==
    /\ pc = "start" /\ ~readable
    /\ pc' = "aborted"
    /\ UNCHANGED <<meta_line, content, books, note, book_path, result, notes, n, out, readable>>

\* content = f.read(); notes = parse_clippings(content); open(output, "w")
ReadAndParse ==
    /\ pc = "start" /\ readable
    /\ notes' = parse_clippings(content)
    /\ n' = 1
    /\ out' = <<>>
    /\ pc' = "loop"
    /\ UNCHANGED <<meta_line, content, books, note, book_path, result, readable>>

\* One pass of "for note in notes": the lookup returns and the record is written.
WriteNote ==
    /\ pc = "loop" /\ n <= Len(notes)
    /\ result' = find_context(notes[n], books)
    /\ result' # Raised
    /\ note' = notes[n]
    /\ out' = out \o Writes(notes[n], result')
    /\ n' = n + 1
    /\ UNCHANGED <<pc, meta_line, content, books, book_path, notes, readable>>

\* One pass of the loop in which the lookup raises: nothing catches it, the
\* exception leaves main.
LookupRaises ==
    /\ pc = "loop" /\ n <= Len(notes)
    /\ result' = find_context(notes[n], books)
    /\ result' = Raised
    /\ note' = notes[n]
    /\ pc' = "aborted"
    /\ UNCHANGED <<meta_line, content, books, book_path, notes, n, out, readable>>

\* The loop is over: both files are closed, main returns.
Finish ==
    /\ pc = "loop" /\ n > Len(notes)
    /\ pc' = "done"
    /\ UNCHANGED <<meta_line, content, books, note, book_path, result, notes, n, out, readable>>

Next == OpenFails \/ ReadAndParse \/ WriteNote \/ LookupRaises \/ Finish

Spec == Init /\ [][Next]_vars

(***************************************************************************)
(* Properties of main                                                      *)
(***************************************************************************)

\* C6: a failure of the text extraction for the matched book file, epub or
\* pdf, never aborts the run: no lookup of main ends in an exception (it
\* yields an absent result, written as "**Context:** Not found"), with a
\* readable export the run does not abort, and the finished report has one
\* record for every Annotation.
C6_LookupFailureTolerated ==
    /\ result # Raised
    /\ readable => pc # "aborted"
    /\ pc = "done" => Len(out) = 4 * Len(notes)

\* C7: when the export is readable and no lookup fails, main writes one
\* record per Annotation in the order returned by parse_clippings: the book
\* heading, the Note line, a Context line and the "---" separator, also
\* after the last record; the Context line is "**Context:** Not found" if
\* and only if find_context returned an absent result, otherwise it carries
\* the returned window.
C7_ReportMirrorsNotes ==
    pc = "done" =>
        /\ notes = parse_clippings(content)
        /\ Len(out) = 4 * Len(notes)
        /\ \A k \in 1..Len(notes) :
              LET ctx == find_context(notes[k], books)
              IN  /\ out[4 * k - 3] = LitHeading \o notes[k].book \o NLNL
                  /\ out[4 * k - 2] = LitNote \o notes[k].text \o NLNL
                  /\ (out[4 * k - 1] = LitContext \o LitNotFound \o NLNL) <=> (ctx = None)
                  /\ ctx # None => out[4 * k - 1] = LitContext \o ctx \o NLNL
                  /\ out[4 * k] = LitRule \o NLNL

\* A finished run of two notes, one with its context found, one without.
C7_Witness ==
    /\ pc = "done"
    /\ Len(notes) = 2
    /\ \E j, k \in 1..2 :
          /\ find_context(notes[j], books) = None
          /\ find_context(notes[k], books) \notin {None, Raised}


====
